---------------------------- MODULE Spec2Model ----------------------------
(***************************************************************************)
(* The rawmux demuxer of libavformat/rawmuxdec.c as a state machine: one   *)
(* input file, the AVIOContext cursor over it, the stream list of the      *)
(* AVFormatContext and the packet handed back by each read.                *)
(*                                                                         *)
(* Numbers: a 32-bit unsigned read is kept as two 16-bit limbs and a       *)
(* 64-bit one as four, because TLC's integers are 32 bits wide;    *)
(* the conversions to C's int and int64_t are modelled on the limbs.       *)
(***************************************************************************)
EXTENDS Integers, Sequences, FiniteSets, TLC

VARIABLES input,    \* the bytes of the file behind avctx->pb
          pos,      \* pb's position: the number of bytes consumed
          eof,      \* pb->eof_reached: a read has run into the end of the file
          buf_size, \* AVProbeData.buf_size; buf is the first buf_size bytes
          pc,       \* where the caller (avformat_open_input, av_read_frame) stands
          score,    \* the result of rawmux_read_probe, -1 before it ran
          t,        \* rawmux_read_header's loop variable t
          streams,  \* avctx->streams, avctx->nb_streams = Len(streams)
          ret,      \* what rawmux_read_header returned, NoRet before it returns
          msg,      \* the av_log(AV_LOG_ERROR) line of the failure, "" if none
          pkt,      \* the AVPacket of the last rawmux_read_packet, NoPkt if none
          pret      \* what the last rawmux_read_packet returned, NoRet if none

vars == <<input, buf_size, pos, eof, pc, score, t, streams, ret, msg, pkt, pret>>

-----------------------------------------------------------------------------
(* Bounds of the model.                                                    *)

\* descriptors in an enumerated stream table
MaxDescs == 2
\* packets in an enumerated packet sequence
MaxPkts == 2
\* how far beyond the stream limit the long stream tables go
MaxOver == 2

-----------------------------------------------------------------------------
(* Program constants.                                                      *)

HEADER == <<114, 97, 119, 109, 117, 120>>        \* 'r' 'a' 'w' 'm' 'u' 'x'
AVPROBE_SCORE_MAX == 100
STREAM_NONE == 0
STREAM_VIDEO == 1
STREAM_AUDIO == 2
VERSION == 1
MAX_INDEX == 255
PIX_NAME_LEN == 32                               \* sizeof(pix_fmt_name)
CODEC_NAME_LEN == 32                             \* sizeof(codec_name)
PCM == <<112, 99, 109, 95>>                      \* 'p' 'c' 'm' '_'

AVERROR_INVALIDDATA == -1094995529
AVERROR_EOF == -541478725
AVERROR_ENOMEM == -12
AVERROR_EINVAL == -22
NoRet == 1
NoPkt == [none |-> TRUE]
NoCodec == [none |-> TRUE]
AV_PIX_FMT_NONE == "none"

Min(a, b) == IF a < b THEN a ELSE b

RECURSIVE Gcd(_, _)
Gcd(a, b) == IF b = 0 THEN a ELSE Gcd(b, a % b)

-----------------------------------------------------------------------------
(* The AVIOContext cursor (avio_r8, avio_rl32, avio_rl64, avio_skip,       *)
(* avio_get_str).  The reads return no error: at the end of the file       *)
(* avio_r8 returns 0, leaves the position where it is and sets             *)
(* eof_reached, and the wider reads are built from it.                     *)

\* the byte avio_r8 returns when the cursor stands at offset p
At(p) == IF p < Len(input) THEN input[p + 1] ELSE 0

\* the cursor after n single-byte reads starting at offset p
Adv(p, n) == Min(p + n, Len(input))

\* eof_reached after n single-byte reads starting at offset p
Hit(p, n) == eof \/ p + n > Len(input)

\* avio_rl32 at offset p: the unsigned value as <<low 16 bits, high 16 bits>>
avio_rl32(p) == <<At(p) + 256 * At(p + 1), At(p + 2) + 256 * At(p + 3)>>

\* avio_rl64 at offset p: val = avio_rl32; val |= avio_rl32 << 32
avio_rl64(p) == avio_rl32(p) \o avio_rl32(p + 4)

\* C's conversion of a 32-bit unsigned value to int
ToInt(u) == u[1] + 65536 * (IF u[2] >= 32768 THEN u[2] - 65536 ELSE u[2])

\* C's conversion of a 64-bit unsigned value to int64_t, as limbs with a
\* signed top limb
ToInt64(u) == <<u[1], u[2], u[3], IF u[4] >= 32768 THEN u[4] - 65536 ELSE u[4]>>

\* avio_get_str(pb, maxlen, buf, buflen) at offset p: reads up to maxlen
\* bytes, stops after a NUL, keeps at most buflen - 1 characters
\*   str: the characters kept, n: the number of avio_r8 calls made
avio_get_str(p, maxlen, buflen) ==
    LET nul  == {i \in 0 .. maxlen - 1 : At(p + i) = 0}
        k    == IF nul = {} THEN maxlen
                ELSE CHOOSE i \in nul : \A j \in nul : i <= j
        keep == Min(k, Min(buflen - 1, maxlen))
    IN  [str |-> [i \in 1 .. keep |-> At(p + i - 1)],
         n   |-> IF nul = {} THEN maxlen ELSE k + 1]

-----------------------------------------------------------------------------
(* The registries and helpers of libavutil and libavcodec that the header  *)
(* reader calls.  The registries are cut down to a few entries.            *)

\* the unsigned value of a 32-bit read, for values below 2^31 (time-base
\* terms, dimensions and sample rates of 2^31 and above are outside the model)
UVal(u) == u[1] + 65536 * u[2]

PixFmts == { [name |-> <<114, 103, 98, 97>>,     fmt |-> "rgba",  bpp |-> 4],
             [name |-> <<103, 114, 97, 121>>,    fmt |-> "gray",  bpp |-> 1],
             [name |-> <<114, 103, 98, 50, 52>>, fmt |-> "rgb24", bpp |-> 3] }

\* av_get_pix_fmt: the format of that name, AV_PIX_FMT_NONE if there is none
av_get_pix_fmt(name) ==
    IF \E f \in PixFmts : f.name = name
    THEN (CHOOSE f \in PixFmts : f.name = name).fmt
    ELSE AV_PIX_FMT_NONE

\* av_image_check_size: 0 < w, 0 < h, (w + 128) * (h + 128) < INT_MAX / 8
av_image_check_size(w, h) ==
    /\ w > 0 /\ h > 0 /\ w < 268435455 /\ h < 268435455
    /\ w + 128 < (268435455 + h + 127) \div (h + 128)

\* av_image_get_buffer_size(fmt, w, h, 1) of a packed format: the bytes of
\* the picture without row padding, or a negative error
av_image_get_buffer_size(fmt, w, h) ==
    IF av_image_check_size(w, h)
    THEN w * h * (CHOOSE f \in PixFmts : f.fmt = fmt).bpp
    ELSE AVERROR_EINVAL

Codecs == { [name |-> PCM \o <<115, 49, 54, 108, 101>>, id |-> "pcm_s16le",
             type |-> "audio", bits |-> 16],
            [name |-> PCM \o <<117, 56>>,               id |-> "pcm_u8",
             type |-> "audio", bits |-> 8],
            [name |-> PCM \o <<115, 50, 52, 108, 101>>, id |-> "pcm_s24le",
             type |-> "audio", bits |-> 24],
            [name |-> PCM \o <<100, 118, 100>>,         id |-> "pcm_dvd",
             type |-> "audio", bits |-> 0] }

\* avcodec_find_decoder_by_name: the decoder of that name, NULL if none
avcodec_find_decoder_by_name(name) ==
    IF \E c \in Codecs : c.name = name
    THEN CHOOSE c \in Codecs : c.name = name
    ELSE NoCodec

\* av_get_bits_per_sample: 0 for a codec without a fixed sample size
av_get_bits_per_sample(id) == (CHOOSE c \in Codecs : c.id = id).bits

\* avpriv_set_pts_info(st, 64, num, den): the time base the stream has
\* afterwards.  The fraction is reduced (av_reduce), and one with a term
\* that is not positive is refused: the stream keeps the time base it had.
avpriv_set_pts_info(old, num, den) ==
    LET g == Gcd(num, den)
        n == IF g = 0 THEN num ELSE num \div g
        d == IF g = 0 THEN den ELSE den \div g
    IN  IF n <= 0 \/ d <= 0 THEN old ELSE <<n, d>>

\* av_rescale_q(a, bq, cq) = a * bq / cq, rounded to nearest, halves away
\* from zero (AV_ROUND_NEAR_INF); a >= 0 and the fractions positive here
av_rescale_q(a, bq, cq) ==
    LET b == bq[1] * cq[2]
        c == cq[1] * bq[2]
    IN  (a * b + c \div 2) \div c

\* the stream avformat_new_stream(avctx, 0) creates as number i: nothing set
\* but the index and the default time base 1/90000
NewStream(i) ==
    [index |-> i, codec_type |-> "unknown", codec_id |-> "none",
     format |-> AV_PIX_FMT_NONE, width |-> 0, height |-> 0, bit_rate |-> 0,
     sample_rate |-> 0, channels |-> 0, bits_per_coded_sample |-> 0,
     block_align |-> 0, time_base |-> <<1, 90000>>]

\* av_get_packet(pb, pkt, size) with the cursor at offset p and
\* eof_reached = e: reads up to size bytes and returns how many it got.
\*   ret: the number of bytes read, 0 for an empty packet read before the end
\*        of the file was noticed, else a negative error (a negative size
\*        cannot be allocated; nothing left to read is AVERROR_EOF)
\*   data: the payload of the packet, shorter than size when the file ends
av_get_packet(p, e, size) ==
    IF size < 0
    THEN [ret |-> AVERROR_EINVAL, data |-> <<>>, pos |-> p, eof |-> e]
    ELSE LET n == Min(size, Len(input) - p)
         IN  [ret  |-> IF n > 0 THEN n
                       ELSE IF size = 0 /\ ~e THEN 0 ELSE AVERROR_EOF,
              data |-> SubSeq(input, p + 1, p + n),
              pos  |-> p + n,
              eof  |-> e \/ n < size]

-----------------------------------------------------------------------------
(* rawmux_read_probe                                                       *)

\* the length test off by one: a buffer of exactly the magic is refused
rawmux_read_probe_short(buf) ==
    IF Len(buf) <= Len(HEADER) \/ SubSeq(buf, 1, Len(HEADER)) # HEADER
    THEN 0
    ELSE AVPROBE_SCORE_MAX

rawmux_read_probe(buf) ==
    IF Len(buf) < Len(HEADER) \/ SubSeq(buf, 1, Len(HEADER)) # HEADER
    THEN 0
    ELSE AVPROBE_SCORE_MAX

Probe ==
    /\ pc = "probe"
    /\ score' = rawmux_read_probe(SubSeq(input, 1, buf_size))
    /\ pc' = IF score' > 0 THEN "header" ELSE "closed"
    /\ UNCHANGED <<input, buf_size, pos, eof, t, streams, ret, msg, pkt, pret>>

-----------------------------------------------------------------------------
(* rawmux_read_header, one action per step of its loop                     *)

\* a version test that lets version 0 through
BadVersion_above(version) == version > VERSION

\* the version test of line 58
BadVersion(version) == version # VERSION

\* a stream-count test that refuses the stream of index 255 already
TooMany_early(index) == index >= MAX_INDEX

\* the stream-count test of line 75
TooMany(index) == index > MAX_INDEX

\* a bit rate that counts bytes, not bits
BitRate_bytes(size, time_base) == av_rescale_q(size, <<1, 1>>, time_base)

\* st->codecpar->bit_rate of line 107
BitRate(size, time_base) == av_rescale_q(size, <<8, 1>>, time_base)

\* a block size in bits, not bytes
BlockAlign_bits(bits, channels) == bits * channels

\* st->codecpar->block_align of line 127 (C's integer division)
BlockAlign(bits, channels) == (bits * channels) \div 8

\* the stream the loop body works on: the one avformat_new_stream added last
St == streams[Len(streams)]

SetSt(s) == [streams EXCEPT ![Len(streams)] = s]

\* a return with an error: nothing is undone
Fail(code, line) ==
    /\ ret' = code
    /\ msg' = line
    /\ pc' = "failed"

\* lines 55-61: skip the magic, read the version
ReadVersion ==
    /\ pc = "header"
    /\ LET version == At(pos + Len(HEADER))
       IN  /\ pos' = Adv(pos, Len(HEADER) + 1)
           /\ eof' = Hit(pos, Len(HEADER) + 1)
           /\ IF BadVersion(version)
              THEN Fail(AVERROR_INVALIDDATA, "Invalid version")
              ELSE pc' = "loop" /\ UNCHANGED <<ret, msg>>
    /\ UNCHANGED <<input, buf_size, score, t, streams, pkt, pret>>

\* lines 63-69: read the next stream type; STREAM_NONE ends the table
ReadType ==
    /\ pc = "loop"
    /\ t' = At(pos)
    /\ pos' = Adv(pos, 1)
    /\ eof' = Hit(pos, 1)
    /\ IF t' = STREAM_NONE
       THEN ret' = 0 /\ pc' = "demux" /\ UNCHANGED msg
       ELSE IF t' > STREAM_AUDIO
            THEN Fail(AVERROR_INVALIDDATA, "Invalid stream type")
            ELSE pc' = "alloc" /\ UNCHANGED <<ret, msg>>
    /\ UNCHANGED <<input, buf_size, score, streams, pkt, pret>>

\* line 71: avformat_new_stream adds the stream to avctx->streams
AllocStream ==
    /\ pc = "alloc"
    /\ streams' = Append(streams, NewStream(Len(streams)))
    /\ pc' = "check"
    /\ UNCHANGED <<input, buf_size, pos, eof, score, t, ret, msg, pkt, pret>>

\* lines 72-73: avformat_new_stream found no memory
AllocFail ==
    /\ pc = "alloc"
    /\ Fail(AVERROR_ENOMEM, "")
    /\ UNCHANGED <<input, buf_size, pos, eof, score, t, streams, pkt, pret>>

\* lines 75-78: the index test, made after the stream was added
CheckIndex ==
    /\ pc = "check"
    /\ IF TooMany(St.index)
       THEN Fail(AVERROR_INVALIDDATA, "Too many streams")
       ELSE /\ pc' = IF t = STREAM_VIDEO THEN "video" ELSE "audio"
            /\ UNCHANGED <<ret, msg>>
    /\ UNCHANGED <<input, buf_size, pos, eof, score, t, streams, pkt, pret>>

\* lines 80-107: a video descriptor
VideoDesc ==
    /\ pc = "video"
    /\ LET g    == avio_get_str(pos, PIX_NAME_LEN, PIX_NAME_LEN)
           p1   == pos + g.n
           fmt  == av_get_pix_fmt(g.str)
           s1   == [St EXCEPT !.codec_type = "video",
                              !.codec_id = "rawvideo",
                              !.format = fmt]
           \* tb.num and tb.den are handed on as unsigned int
           tb   == avpriv_set_pts_info(St.time_base, UVal(avio_rl32(p1)),
                                       UVal(avio_rl32(p1 + 4)))
           w    == ToInt(avio_rl32(p1 + 8))
           h    == ToInt(avio_rl32(p1 + 12))
           s2   == [s1 EXCEPT !.time_base = tb, !.width = w, !.height = h]
           size == av_image_get_buffer_size(fmt, w, h)
       IN  IF fmt = AV_PIX_FMT_NONE
           THEN /\ pos' = Adv(pos, g.n)
                /\ eof' = Hit(pos, g.n)
                /\ streams' = SetSt(s1)
                /\ Fail(AVERROR_INVALIDDATA, "Invalid pixel format")
           ELSE /\ pos' = Adv(pos, g.n + 16)
                /\ eof' = Hit(pos, g.n + 16)
                /\ IF size < 0
                   THEN /\ streams' = SetSt(s2)
                        /\ Fail(size, "")
                   ELSE /\ streams' =
                               SetSt([s2 EXCEPT !.bit_rate = BitRate(size, tb)])
                        /\ pc' = "loop"
                        /\ UNCHANGED <<ret, msg>>
    /\ UNCHANGED <<input, buf_size, score, t, pkt, pret>>

\* lines 108-129: an audio descriptor; av_assert0 aborts the process
AudioDesc ==
    /\ pc = "audio"
    /\ LET g     == avio_get_str(pos, CODEC_NAME_LEN - 4, CODEC_NAME_LEN - 4)
           p1    == pos + g.n
           codec == avcodec_find_decoder_by_name(PCM \o g.str)
           rate  == ToInt(avio_rl32(p1))
           chans == At(p1 + 4)
           bits  == av_get_bits_per_sample(codec.id)
           s1    == [St EXCEPT !.codec_type = "audio",
                               !.codec_id = codec.id,
                               !.sample_rate = rate,
                               !.channels = chans,
                               !.bits_per_coded_sample = bits]
           \* sample_rate is handed on as unsigned int
           tb    == avpriv_set_pts_info(St.time_base, 1,
                                        UVal(avio_rl32(p1)))
       IN  IF codec = NoCodec \/ codec.type # "audio"
           THEN /\ pos' = Adv(pos, g.n)
                /\ eof' = Hit(pos, g.n)
                /\ Fail(AVERROR_INVALIDDATA, "Invalid codec")
                /\ UNCHANGED streams
           ELSE /\ pos' = Adv(pos, g.n + 5)
                /\ eof' = Hit(pos, g.n + 5)
                /\ IF bits > 0
                   THEN /\ streams' =
                               SetSt([s1 EXCEPT
                                        !.block_align = BlockAlign(bits, chans),
                                        !.time_base = tb])
                        /\ pc' = "loop"
                   ELSE /\ streams' = SetSt(s1)
                        /\ pc' = "aborted"
                /\ UNCHANGED <<ret, msg>>
    /\ UNCHANGED <<input, buf_size, score, t, pkt, pret>>

-----------------------------------------------------------------------------
(* rawmux_read_packet                                                      *)

\* a frame whose timestamp is read as 32 bits
PktHeader_pts32(p) ==
    [stream |-> At(p),
     size   |-> ToInt(avio_rl32(p + 1)),
     pts    |-> ToInt64(avio_rl32(p + 5) \o <<0, 0>>),
     n      |-> 1 + 4 + 4]

\* lines 140-142: the three reads of the packet frame at offset p
\*   n: the number of bytes the reads ask for
PktHeader(p) ==
    [stream |-> At(p),
     size   |-> ToInt(avio_rl32(p + 1)),
     pts    |-> ToInt64(avio_rl64(p + 5)),
     n      |-> 1 + 4 + 8]

\* the test of av_get_packet's result, line 145
GetFailed(r) == r < 0

ReadPacket ==
    /\ pc = "demux"
    /\ LET f == PktHeader(pos)
           r == av_get_packet(Adv(pos, f.n), Hit(pos, f.n), f.size)
       IN  /\ pos' = r.pos
           /\ eof' = r.eof
           /\ IF GetFailed(r.ret)
              THEN /\ pret' = r.ret
                   /\ pkt' = NoPkt
                   /\ pc' = "closed"
              ELSE /\ pret' = 0
                   /\ pkt' = [data |-> r.data, size |-> Len(r.data),
                              pts |-> f.pts, dts |-> f.pts,
                              stream_index |-> f.stream,
                              pos |-> Adv(pos, f.n)]
                   /\ pc' = "demux"
    /\ UNCHANGED <<input, buf_size, score, t, streams, ret, msg>>

-----------------------------------------------------------------------------
(* The files the model reads: written field by field in the layout the     *)
(* reader expects, then cut short at every length.                         *)

Enc16(v) == <<v % 256, v \div 256>>
Enc32(u) == Enc16(u[1]) \o Enc16(u[2])
Enc64(u) == Enc16(u[1]) \o Enc16(u[2]) \o Enc16(u[3]) \o Enc16(u[4])
EncU(v) == Enc32(<<v % 65536, v \div 65536>>)

VDesc(name, num, den, w, h) ==
    <<STREAM_VIDEO>> \o name \o <<0>> \o EncU(num) \o EncU(den)
                     \o EncU(w) \o EncU(h)

ADesc(suffix, rate, channels) ==
    <<STREAM_AUDIO>> \o suffix \o <<0>> \o EncU(rate) \o <<channels>>

Packet(index, size, pts, payload) ==
    <<index>> \o Enc32(size) \o Enc64(pts) \o payload

Rgba == <<114, 103, 98, 97>>
Gray == <<103, 114, 97, 121>>
Rgb24 == <<114, 103, 98, 50, 52>>
S16le == <<115, 49, 54, 108, 101>>
U8 == <<117, 56>>
S24le == <<115, 50, 52, 108, 101>>

Descs ==
    { VDesc(Rgba, 1, 30, 2, 2),
      VDesc(Gray, 16, 1, 1, 1),
      VDesc(Rgb24, 2, 60, 1, 1),
      VDesc(Gray, 1001, 30000, 3, 1),
      VDesc(Rgba, 0, 25, 1, 1),
      VDesc(Rgba, 1, 30, 0, 2),
      VDesc(<<120, 120>>, 1, 30, 2, 2),
      ADesc(S16le, 48000, 2),
      ADesc(U8, 8000, 1),
      ADesc(S24le, 0, 3),
      ADesc(<<122>>, 8000, 1),
      ADesc(<<100, 118, 100>>, 48000, 2),
      <<3>> }

Pkts ==
    { Packet(0, <<3, 0>>, <<1, 0, 0, 0>>, <<10, 11, 12>>),
      Packet(7, <<0, 0>>, <<65535, 65535, 65535, 65535>>, <<>>),
      Packet(255, <<2, 0>>, <<5, 0, 1, 0>>, <<20, 21>>),
      Packet(1, <<1, 32768>>, <<0, 0, 0, 32768>>, <<30>>) }

RECURSIVE Concat(_)
Concat(ss) == IF ss = <<>> THEN <<>> ELSE Head(ss) \o Concat(Tail(ss))

\* n copies of d in a row
Rep(d, n) == [i \in 1 .. n * Len(d) |-> d[((i - 1) % Len(d)) + 1]]

SeqsUpTo(S, n) == UNION {[1 .. k -> S] : k \in 0 .. n}

Prefixes(f, from) == {SubSeq(f, 1, k) : k \in Min(from, Len(f)) .. Len(f)}

File(version, table, packets) ==
    HEADER \o <<version>> \o table \o <<STREAM_NONE>> \o packets

\* stream tables of up to MaxDescs descriptors, cut at every length
TableFiles ==
    UNION {Prefixes(File(VERSION, Concat(ds), <<>>), Len(HEADER)) :
               ds \in SeqsUpTo(Descs, MaxDescs)}

\* up to MaxPkts packets behind an empty and a one-stream table, cut at
\* every length of the packet part
PacketFiles ==
    UNION {Prefixes(File(VERSION, tab, Concat(ps)), Len(HEADER) + 2 + Len(tab)) :
               tab \in {<<>>, ADesc(U8, 8000, 1)},
               ps \in SeqsUpTo(Pkts, MaxPkts)}

\* other version bytes, with and without a stream table behind them
VersionFiles ==
    {File(v, tab, <<>>) : v \in {0, 2, 255},
                          tab \in {<<>>, ADesc(U8, 8000, 1)}}

\* stream tables around the limit: MAX_INDEX .. MAX_INDEX + 1 + MaxOver
\* descriptors of one kind, and a packet behind them
LongDescs == {ADesc(U8, 8000, 1), VDesc(Gray, 1, 25, 1, 1)}

LongFile(d, n) ==
    File(VERSION, Rep(d, n), Packet(255, <<1, 0>>, <<9, 0, 0, 0>>, <<77>>))

LongFiles ==
    {LongFile(d, n) : d \in LongDescs,
                      n \in MAX_INDEX .. MAX_INDEX + 1 + MaxOver}

\* buffers for the probe: the magic cut short or with one byte changed
ProbeFiles ==
    Prefixes(HEADER \o <<VERSION, STREAM_NONE>>, 0)
    \cup {[HEADER \o <<VERSION>> EXCEPT ![i] = 0] : i \in 1 .. Len(HEADER)}

Inputs == TableFiles \cup PacketFiles \cup VersionFiles \cup LongFiles

Init ==
    /\ \/ input \in Inputs /\ buf_size = Len(input)
       \/ input \in ProbeFiles /\ buf_size \in 0 .. Len(input)
    /\ pos = 0
    /\ eof = FALSE
    /\ pc = "probe"
    /\ score = -1
    /\ t = STREAM_NONE
    /\ streams = <<>>
    /\ ret = NoRet
    /\ msg = ""
    /\ pkt = NoPkt
    /\ pret = NoRet

Next ==
    \/ Probe
    \/ ReadVersion
    \/ ReadType
    \/ AllocStream
    \/ AllocFail
    \/ CheckIndex
    \/ VideoDesc
    \/ AudioDesc
    \/ ReadPacket

Spec == Init /\ [][Next]_vars

-----------------------------------------------------------------------------
(* Properties.                                                             *)

\* the probe has run, matched, and rawmux_read_header has read the version
HeaderStarted == score > 0 /\ pc # "header"

\* a step of rawmux_read_packet that returned success
PacketRead == pc = "demux" /\ pret' = 0

\* the declared size of the packet frame at offset p, as <<low, high>> limbs
DeclaredSize(p) == <<At(p + 1) + 256 * At(p + 2), At(p + 3) + 256 * At(p + 4)>>

\* C1: the probe returns 0 for a buffer of fewer than 6 bytes or one whose
\* first 6 bytes are not "rawmux", and the maximum score for every buffer
\* that starts with "rawmux", whatever follows.
C1_ProbeScore ==
    score # -1 =>
        IF buf_size >= 6 /\ SubSeq(input, 1, 6) = <<114, 97, 119, 109, 117, 120>>
        THEN score = 100
        ELSE score = 0

\* C1 witness: a matching buffer with bytes behind the magic was probed
C1_Witness ==
    /\ score = 100
    /\ buf_size > 6
    /\ input[7] # 1

\* C2: whenever the byte after the magic is not 1, the header reader fails
\* with the version error, having read that byte and nothing behind it and
\* having added no stream, whatever follows in the file.
C2_VersionRejected ==
    (HeaderStarted /\ At(6) # 1) =>
        /\ pc = "failed"
        /\ ret = AVERROR_INVALIDDATA
        /\ msg = "Invalid version"
        /\ pos = Min(7, Len(input))
        /\ streams = <<>>

\* C2 witness: a version other than 1 with a stream table behind it was refused
C2_Witness ==
    /\ HeaderStarted
    /\ Len(input) > 8
    /\ input[7] = 2
    /\ msg = "Invalid version"

\* the files whose stream table holds exactly 256 valid descriptors
Tables256 == {LongFile(d, 256) : d \in LongDescs}

\* C3: the too-many-streams failure happens exactly when the stream of index
\* 256 (the 257th) has been allocated: never with fewer streams, always with
\* that one, and a table of 256 valid descriptors and a terminator is
\* accepted with index 255 as its last stream.
C3_TooManyAt257 ==
    /\ msg = "Too many streams" =>
           /\ Len(streams) = 257
           /\ streams[257].index = 256
           /\ ret = AVERROR_INVALIDDATA
    /\ Len(streams) >= 257 =>
           /\ Len(streams) = 257
           /\ pc = "check" \/ (pc = "failed" /\ msg = "Too many streams")
    /\ input \in Tables256 =>
           /\ pc = "failed" => ret = AVERROR_ENOMEM
           /\ ret = 0 => Len(streams) = 256 /\ streams[256].index = 255

\* C3 witness: the 257th descriptor of a long table was refused
C3_Witness ==
    /\ msg = "Too many streams"
    /\ Len(streams) = 257
    /\ pc = "failed"

\* C4: at every moment the stream list holds at most 256 streams and the
\* stream at position i (counted from 0) has index i, also after a failure.
C4_AtMost256 ==
    /\ Len(streams) <= 256
    /\ \A i \in 1 .. Len(streams) : streams[i].index = i - 1

\* C5: a packet read whose frame is complete and declares more payload than
\* the file still holds fails and hands back no packet, also when part of
\* the payload is there.
C5_ShortPayloadFails ==
    [][(/\ pc = "demux"
        /\ pos + 13 <= Len(input)
        /\ \/ DeclaredSize(pos)[2] >= 32768
           \/ UVal(DeclaredSize(pos)) > Len(input) - (pos + 13))
       => (pret' < 0 /\ pkt' = NoPkt)]_vars

\* C6: the packet of every successful read carries the framed stream byte,
\* exactly the declared number of payload bytes that follow the frame, and
\* the framed 64-bit timestamp as both pts and dts, whatever the stream
\* byte is.
C6_PacketAsFramed ==
    (pret = 0 /\ pkt # NoPkt) =>
        LET p == pkt.pos - 13
        IN  /\ pkt.stream_index = input[p + 1]
            /\ DeclaredSize(p)[2] < 32768
            /\ pkt.size = UVal(DeclaredSize(p))
            /\ pkt.data = SubSeq(input, p + 14, p + 13 + UVal(DeclaredSize(p)))
            /\ pkt.pts = <<input[p + 6] + 256 * input[p + 7],
                           input[p + 8] + 256 * input[p + 9],
                           input[p + 10] + 256 * input[p + 11],
                           input[p + 12] + 256 * input[p + 13]
                             - (IF input[p + 13] >= 128 THEN 65536 ELSE 0)>>
            /\ pkt.dts = pkt.pts

\* the statement of C6 for the reads that got all of the declared payload:
\* it holds, so C6 fails through short payloads only
C6_WhenComplete ==
    (pret = 0 /\ pkt # NoPkt /\ DeclaredSize(pkt.pos - 13)[2] < 32768
        /\ pkt.size = UVal(DeclaredSize(pkt.pos - 13))) => C6_PacketAsFramed

\* the files written whole, with packets that hold what they declare (the
\* fifth byte of a packet is the top byte of its size)
WholeFiles ==
    {File(VERSION, tab, Concat(ps)) :
         tab \in {<<>>, ADesc(U8, 8000, 1)},
         ps \in SeqsUpTo({q \in Pkts : q[5] < 128}, MaxPkts)}

\* C7: the cursor never moves backwards, and on a file written whole every
\* successful packet read starts at the cursor the step before left, takes
\* the 13 frame bytes and the declared payload, and leaves the cursor
\* exactly 13 + size bytes further.
C7_CursorAdvance ==
    [][/\ pos' >= pos
       /\ (PacketRead /\ input \in WholeFiles) =>
              /\ pkt'.pos = pos + 13
              /\ pkt'.data = SubSeq(input, pos + 14, pos')
              /\ pos' = pos + 13 + UVal(DeclaredSize(pos))]_vars

\* C7 witness: a second packet was read from a file written whole
C7_Witness ==
    /\ input \in WholeFiles
    /\ pret = 0
    /\ pkt # NoPkt
    /\ pkt.pos >= 8 + 13 + 13
    /\ pkt.size > 0

\* the start of the fields behind the name that starts at offset p
AfterName(p) == p + 1 + CHOOSE k \in 0 .. 31 :
                           At(p + k) = 0 /\ \A j \in 0 .. k - 1 : At(p + j) # 0

\* the frame size of a stream: width * height * bytes per pixel
FrameBytes(s) ==
    s.width * s.height * (CASE s.format = "rgba" -> 4
                            [] s.format = "rgb24" -> 3
                            [] s.format = "gray" -> 1)

\* a / b rounded to the nearest integer, halves up
Round(a, b) == (2 * a + b) \div (2 * b)

\* a step that accepted a video descriptor, an audio descriptor, all of
\* whose bytes were in the file
VideoAccepted == pc = "video" /\ pc' = "loop" /\ ~eof'
AudioAccepted == pc = "audio" /\ pc' = "loop" /\ ~eof'

\* C8 as stated: every accepted video descriptor gets the time base
\* (num, den) as read and the bit rate round(frame bytes * 8 * den / num).
C8_AsRead ==
    [][VideoAccepted =>
         LET a   == AfterName(pos)
             num == UVal(avio_rl32(a))
             den == UVal(avio_rl32(a + 4))
             s   == streams'[Len(streams')]
         IN  /\ s.time_base = <<num, den>>
             /\ s.bit_rate = Round(FrameBytes(s) * 8 * den, num)]_vars

\* C8 amended: with num and den both in 1 .. 2^31 - 1 the time base is
\* num/den in lowest terms and the bit rate is
\* round(frame bytes * 8 * den / num); with num or den 0 the time base stays
\* 1/90000 and the bit rate is frame bytes * 8 * 90000.
C8_Reduced ==
    [][VideoAccepted =>
         LET a   == AfterName(pos)
             num == UVal(avio_rl32(a))
             den == UVal(avio_rl32(a + 4))
             s   == streams'[Len(streams')]
         IN  IF num >= 1 /\ den >= 1
             THEN /\ s.time_base[1] * den = s.time_base[2] * num
                  /\ \A k \in 2 .. s.time_base[1] :
                         s.time_base[1] % k # 0 \/ s.time_base[2] % k # 0
                  /\ s.time_base[1] >= 1
                  /\ s.bit_rate = Round(FrameBytes(s) * 8 * den, num)
             ELSE /\ s.time_base = <<1, 90000>>
                  /\ s.bit_rate = FrameBytes(s) * 8 * 90000]_vars

\* C8 witness: time base 1/30 and 2 x 2 pixels of 4 bytes gave 3840
C8_Witness ==
    /\ pc = "loop"
    /\ Len(streams) > 0
    /\ streams[Len(streams)].format = "rgba"
    /\ streams[Len(streams)].width = 2
    /\ streams[Len(streams)].height = 2
    /\ streams[Len(streams)].time_base = <<1, 30>>
    /\ streams[Len(streams)].bit_rate = 3840

\* the bits per sample of the codecs with a fixed sample size
BitsOf(id) == CASE id = "pcm_s16le" -> 16
                [] id = "pcm_u8" -> 8
                [] id = "pcm_s24le" -> 24

\* C9 as stated: every accepted audio descriptor gets the block size
\* floor(bits * channels / 8) and the time base (1, sample_rate).
C9_AsRead ==
    [][AudioAccepted =>
         LET a    == AfterName(pos)
             rate == UVal(avio_rl32(a))
             ch   == At(a + 4)
             s    == streams'[Len(streams')]
         IN  /\ 8 * s.block_align <= BitsOf(s.codec_id) * ch
             /\ 8 * s.block_align + 8 > BitsOf(s.codec_id) * ch
             /\ s.time_base = <<1, rate>>]_vars

\* C9 amended: the block size is floor(bits * channels / 8); the time base
\* is (1, sample_rate) for a sample rate in 1 .. 2^31 - 1 and stays 1/90000
\* for the sample rate 0.
C9_RateNotZero ==
    [][AudioAccepted =>
         LET a    == AfterName(pos)
             rate == UVal(avio_rl32(a))
             ch   == At(a + 4)
             s    == streams'[Len(streams')]
         IN  /\ 8 * s.block_align <= BitsOf(s.codec_id) * ch
             /\ 8 * s.block_align + 8 > BitsOf(s.codec_id) * ch
             /\ s.channels = ch
             /\ s.sample_rate = rate
             /\ s.time_base = IF rate >= 1 THEN <<1, rate>> ELSE <<1, 90000>>]_vars

\* C9 witness: 16 bits and 2 channels gave the block size 4
C9_Witness ==
    /\ pc = "loop"
    /\ Len(streams) > 0
    /\ streams[Len(streams)].codec_id = "pcm_s16le"
    /\ streams[Len(streams)].channels = 2
    /\ streams[Len(streams)].block_align = 4
    /\ streams[Len(streams)].time_base = <<1, 48000>>

\* C10: when the header reader has just returned success, the byte before
\* the cursor is a stream type of 0 that was read from the file, not past
\* its end.
C10_TerminatorRead ==
    (ret = 0 /\ pret = NoRet) =>
        /\ ~eof
        /\ pos >= 8
        /\ input[pos] = 0

=============================================================================
